---- MODULE Spec2Model ----
(***************************************************************************)
(* dnd-agent: the turn loop (gameLoop), the ask_player handler and the two *)
(* roll_dice handlers, as state machines.                                  *)
(*                                                                         *)
(* Strings are sequences of one-character strings, so that TrimSpace,      *)
(* Atoi, IndexAny, SplitN and Sscanf are computed character by character.  *)
(***************************************************************************)
EXTENDS Integers, Sequences, FiniteSets, TLC

VARIABLES
    \* ---- gameLoop (src/main.go:89-127)
    pc,            \* position of gameLoop
    sigCancelled,  \* sigCtx.Err() != nil
    turnExpired,   \* the Turn context's 30 minute deadline has passed
    turn,          \* number of Stream calls issued
    prompt,        \* local `prompt`
    history,       \* local `history`
    call,          \* the AgentStreamCall of the last Stream call: prompt, Messages
    result,        \* Steps built by the Stream call in flight / returned (seq of seq of Message)
    err,           \* error returned by Stream ("none" when nil)
    appendIdx,     \* index of the range loop of line 120
    outcome,       \* what gameLoop returned
    liveCtx,       \* Turn contexts created and not yet cancelled
    inFlight,      \* agent.Stream calls that have not returned
    nextMsg,       \* identity of the next Message the agent creates
    returned,      \* every Message of every successful Stream result, in emission order
    \* ---- askPlayer (src/main.go:214-238) and playerScanner (src/main.go:30)
    toolPc,        \* position of the ask_player handler
    askOptions,    \* input.Options
    stdinClosed,   \* the input stream is at end-of-input
    scanText,      \* playerScanner.Text() of the current iteration
    linesRead,     \* lines the current invocation has consumed
    toolResp,      \* the handler's ToolResponse
    toolErr,       \* the handler's error result
    \* ---- rollDice (src/main.go:353-372, src/unnamed/part_000:244-291)
    dicePc,        \* position of the roll_dice handler
    diceIn,        \* input: the diceQuery of either form
    notation,      \* local `notation`
    count,         \* local `count`
    sides,         \* local `sides`
    modifier,      \* local `modifier` / input.Modifier
    rolls,         \* local `rolls`, the dice drawn so far
    total,         \* local `total`
    diceResp,      \* the handler's ToolResponse
    \* ---- lookupMonster, lookupSpell (src/main.go:248-341)
    lkPc,          \* position of the lookup handler
    lkIn,          \* which handler runs, and its input.Name
    lkSlug,        \* local `slug`
    lkHttp,        \* what http.Get returned: err, resp.StatusCode, the body
    lkRec,         \* local `m` / `s`: the decoded record
    lkIdx,         \* index of the range loop of line 277 / line 285
    lkSummary,     \* local `summary`, as the pieces it is formatted from
    lkResp         \* the handler's ToolResponse and error result

loopVars == <<pc, sigCancelled, turnExpired, turn, prompt, history, call, result, err,
              appendIdx, outcome, liveCtx, inFlight, nextMsg, returned>>
askVars == <<toolPc, askOptions, stdinClosed, scanText, linesRead, toolResp, toolErr>>
diceVars == <<dicePc, diceIn, notation, count, sides, modifier, rolls, total, diceResp>>
lookupVars == <<lkPc, lkIn, lkSlug, lkHttp, lkRec, lkIdx, lkSummary, lkResp>>
vars == <<loopVars, askVars, diceVars, lookupVars>>

----------------------------------------------------------------------------
(* Bounds *)

MaxTurns == 2      \* Stream calls per run
MaxSteps == 2      \* Steps per Stream result
MaxMsgs == 2       \* Messages per Step
MaxLineLen == 2    \* characters per input line
MaxReads == 2      \* lines one askPlayer invocation consumes
MaxNotationLen == 5 \* characters per generated dice notation
MaxDice == 2       \* dice per roll
MaxSides == 6      \* sides per die
MaxModifier == 2   \* magnitude of the structured form's modifier
MaxItems == 2      \* entries of a list in a fetched record

----------------------------------------------------------------------------
(* Strings *)

Digits == <<"0", "1", "2", "3", "4", "5", "6", "7", "8", "9">>

IsDigit(c) == \E i \in 1..10 : Digits[i] = c

DigitVal(c) == (CHOOSE i \in 1..10 : Digits[i] = c) - 1

IsSpace(c) == c \in {" ", "\t"}

RECURSIVE TrimLeft(_)
TrimLeft(s) == IF s # <<>> /\ IsSpace(Head(s)) THEN TrimLeft(Tail(s)) ELSE s

RECURSIVE TrimRight(_)
TrimRight(s) ==
    IF s # <<>> /\ IsSpace(s[Len(s)]) THEN TrimRight(SubSeq(s, 1, Len(s) - 1)) ELSE s

\* strings.TrimSpace
TrimSpace(s) == TrimRight(TrimLeft(s))

RECURSIVE DecimalValue(_)
DecimalValue(s) ==
    IF s = <<>> THEN 0
    ELSE 10 * DecimalValue(SubSeq(s, 1, Len(s) - 1)) + DigitVal(s[Len(s)])

AllDigits(s) == s # <<>> /\ \A i \in 1..Len(s) : IsDigit(s[i])

\* strconv.Atoi: an optional sign, then one or more decimal digits, nothing else.
Atoi(s) ==
    LET signed == s # <<>> /\ Head(s) \in {"+", "-"}
        body == IF signed THEN Tail(s) ELSE s
    IN  IF AllDigits(body)
        THEN [ok |-> TRUE,
              val |-> IF signed /\ Head(s) = "-" THEN 0 - DecimalValue(body)
                      ELSE DecimalValue(body)]
        ELSE [ok |-> FALSE, val |-> 0]

RECURSIVE SeqsUpTo(_, _)
SeqsUpTo(S, n) ==
    IF n = 0 THEN {<<>>}
    ELSE LET shorter == SeqsUpTo(S, n - 1)
         IN  shorter \cup {Append(s, c) : s \in shorter, c \in S}

RECURSIVE Flatten(_)
Flatten(steps) == IF steps = <<>> THEN <<>> ELSE Head(steps) \o Flatten(Tail(steps))

IsPrefix(s, t) == Len(s) <= Len(t) /\ SubSeq(t, 1, Len(s)) = s

----------------------------------------------------------------------------
(* Inputs *)

\* Characters of the player's input lines.
LineChars == {" ", "+", "-", "0", "1", "3", "a"}

Lines == SeqsUpTo(LineChars, MaxLineLen)

\* Lines the player types while the whole loop runs: a selection and a line
\* that is none.
LoopLines == {<<"3">>, <<"a">>}

\* Option lists the model passes to ask_player (labels are distinct).
OptionLists == {<<>>, <<"north", "south", "east">>,
                <<"north", "south", "east", "west", "wait">>}

\* Errors agent.Stream returns: the context's own errors, and failures of the
\* model generation or of a Step.
ErrKinds == {"cancelled", "timeout", "transport", "step"}

NoResp == [kind |-> "none", label |-> ""]

Running == [ret |-> "running", wraps |-> "none"]

NoDiceResp == [kind |-> "none", notation |-> <<>>, rolls |-> <<>>, mod |-> <<>>, total |-> 0]

NoDiceInput == [form |-> "none", Notation |-> <<>>, Count |-> 0, Sides |-> 0, Modifier |-> 0]

\* No roll_dice call is running.
DiceIdle ==
    /\ dicePc = "idle"
    /\ diceIn = NoDiceInput
    /\ notation = <<>>
    /\ count = 0
    /\ sides = 0
    /\ modifier = 0
    /\ rolls = <<>>
    /\ total = 0
    /\ diceResp = NoDiceResp

\* A value decoded by encoding/json into `any`: t is its Go type, s the text of
\* a string or of a number, items the elements of a []any (k = "") or the
\* entries of a map[string]any, in key order.  Nil is the nil interface: a JSON
\* null, and what indexing a map with a missing key gives.
Nil == [t |-> "nil", s |-> "", items |-> <<>>]

JString(x) == [t |-> "string", s |-> x, items |-> <<>>]

JNumber(x) == [t |-> "float64", s |-> x, items |-> <<>>]

Field(key, v) == [k |-> key, v |-> v]

JList(xs) == [t |-> "list", s |-> "", items |-> [i \in 1..Len(xs) |-> Field("", xs[i])]]

JObject(fields) == [t |-> "map", s |-> "", items |-> fields]

NoLookup == [kind |-> "none", name |-> <<>>]

NoHttp == [err |-> FALSE, status |-> 0, body |-> Nil]

NoLookupResp == [kind |-> "none", text |-> <<>>, err |-> "none"]

\* No lookup_monster or lookup_spell call is running.
LookupIdle ==
    /\ lkPc = "idle"
    /\ lkIn = NoLookup
    /\ lkSlug = <<>>
    /\ lkHttp = NoHttp
    /\ lkRec = Nil
    /\ lkIdx = 0
    /\ lkSummary = <<>>
    /\ lkResp = NoLookupResp

----------------------------------------------------------------------------
(* gameLoop, src/main.go:89-127 *)

Init ==
    /\ pc = "loop"
    /\ sigCancelled = FALSE
    /\ turnExpired = FALSE
    /\ turn = 0
    /\ prompt = "Begin."
    /\ history = <<>>
    /\ call = [prompt |-> "", messages |-> <<>>]
    /\ result = <<>>
    /\ err = "none"
    /\ appendIdx = 0
    /\ outcome = Running
    /\ liveCtx = 0
    /\ inFlight = 0
    /\ nextMsg = 1
    /\ returned = <<>>
    /\ toolPc = "idle"
    /\ askOptions = <<>>
    /\ stdinClosed = FALSE
    /\ scanText = <<>>
    /\ linesRead = 0
    /\ toolResp = NoResp
    /\ toolErr = "none"
    /\ DiceIdle
    /\ LookupIdle

\* line 98: ctx, cancel := context.WithTimeout(sigCtx, 30*time.Minute)
NewTurnCtx ==
    /\ pc = "loop"
    /\ turn < MaxTurns
    /\ liveCtx' = liveCtx + 1
    /\ turnExpired' = FALSE
    /\ pc' = "call"
    /\ UNCHANGED <<sigCancelled, turn, prompt, history, call, result, err, appendIdx,
                   outcome, inFlight, nextMsg, returned>>
    /\ UNCHANGED <<askVars, diceVars, lookupVars>>

\* line 100: agent.Stream(ctx, AgentStreamCall{Prompt: prompt, Messages: history, ...})
StreamCall ==
    /\ pc = "call"
    /\ call' = [prompt |-> prompt, messages |-> history]
    /\ result' = <<>>
    /\ turn' = turn + 1
    /\ inFlight' = inFlight + 1
    /\ pc' = "stream"
    /\ UNCHANGED <<sigCancelled, turnExpired, prompt, history, err, appendIdx, outcome,
                   liveCtx, nextMsg, returned>>
    /\ UNCHANGED <<askVars, diceVars, lookupVars>>

\* The agent completes one Step holding m new Messages.
AgentStep(m) ==
    /\ pc = "stream"
    /\ toolPc = "idle"
    /\ Len(result) < MaxSteps
    /\ result' = Append(result, [i \in 1..m |-> nextMsg + i - 1])
    /\ nextMsg' = nextMsg + m
    /\ UNCHANGED <<pc, sigCancelled, turnExpired, turn, prompt, history, call, err,
                   appendIdx, outcome, liveCtx, inFlight, returned>>
    /\ UNCHANGED <<askVars, diceVars, lookupVars>>

\* line 100 returns (result, nil).
StreamReturnOK ==
    /\ pc = "stream"
    /\ toolPc = "idle"
    /\ err' = "none"
    /\ inFlight' = inFlight - 1
    /\ returned' = returned \o Flatten(result)
    /\ pc' = "cancel"
    /\ UNCHANGED <<sigCancelled, turnExpired, turn, prompt, history, call, result,
                   appendIdx, outcome, liveCtx, nextMsg>>
    /\ UNCHANGED <<askVars, diceVars, lookupVars>>

\* line 100 returns (nil, err).  The context's errors need the context to be done.
StreamReturnErr(kind) ==
    /\ pc = "stream"
    /\ toolPc = "idle"
    /\ kind = "cancelled" => sigCancelled
    /\ kind = "timeout" => turnExpired
    /\ err' = kind
    /\ result' = <<>>
    /\ inFlight' = inFlight - 1
    /\ pc' = "cancel"
    /\ UNCHANGED <<sigCancelled, turnExpired, turn, prompt, history, call, appendIdx,
                   outcome, liveCtx, nextMsg, returned>>
    /\ UNCHANGED <<askVars, diceVars, lookupVars>>

\* Mutant: cancel() deferred to gameLoop's return instead of called per Turn.
CancelTurnCtxDeferred ==
    /\ pc = "cancel"
    /\ pc' = "check"
    /\ UNCHANGED <<sigCancelled, turnExpired, turn, prompt, history, call, result, err,
                   appendIdx, outcome, liveCtx, inFlight, nextMsg, returned>>
    /\ UNCHANGED <<askVars, diceVars, lookupVars>>

\* line 110: cancel()
CancelTurnCtx ==
    /\ pc = "cancel"
    /\ liveCtx' = liveCtx - 1
    /\ pc' = "check"
    /\ UNCHANGED <<sigCancelled, turnExpired, turn, prompt, history, call, result, err,
                   appendIdx, outcome, inFlight, nextMsg, returned>>
    /\ UNCHANGED <<askVars, diceVars, lookupVars>>

\* Mutant: the graceful end decided by the error (errors.Is(err, context.Canceled))
\* instead of by sigCtx.Err().
CheckErrByCause ==
    /\ pc = "check"
    /\ IF err # "none"
       THEN /\ outcome' = IF err = "cancelled" THEN [ret |-> "nil", wraps |-> "none"]
                          ELSE [ret |-> "error", wraps |-> err]
            /\ pc' = "done"
            /\ UNCHANGED appendIdx
       ELSE /\ pc' = "append"
            /\ appendIdx' = 1
            /\ UNCHANGED outcome
    /\ UNCHANGED <<sigCancelled, turnExpired, turn, prompt, history, call, result, err,
                   liveCtx, inFlight, nextMsg, returned>>
    /\ UNCHANGED <<askVars, diceVars, lookupVars>>

\* Mutant: a Turn that ran out of time is tried again.
CheckErrRetryTimeout ==
    /\ pc = "check"
    /\ IF err = "timeout" /\ ~sigCancelled
       THEN /\ pc' = "loop"
            /\ UNCHANGED <<appendIdx, outcome>>
       ELSE IF err # "none"
       THEN /\ outcome' = IF sigCancelled THEN [ret |-> "nil", wraps |-> "none"]
                          ELSE [ret |-> "error", wraps |-> err]
            /\ pc' = "done"
            /\ UNCHANGED appendIdx
       ELSE /\ pc' = "append"
            /\ appendIdx' = 1
            /\ UNCHANGED outcome
    /\ UNCHANGED <<sigCancelled, turnExpired, turn, prompt, history, call, result, err,
                   liveCtx, inFlight, nextMsg, returned>>
    /\ UNCHANGED <<askVars, diceVars, lookupVars>>

\* lines 112-118: if err != nil { if sigCtx.Err() != nil { return nil }; return wrapped }
CheckErr ==
    /\ pc = "check"
    /\ IF err # "none"
       THEN /\ outcome' = IF sigCancelled THEN [ret |-> "nil", wraps |-> "none"]
                          ELSE [ret |-> "error", wraps |-> err]
            /\ pc' = "done"
            /\ UNCHANGED appendIdx
       ELSE /\ pc' = "append"
            /\ appendIdx' = 1
            /\ UNCHANGED outcome
    /\ UNCHANGED <<sigCancelled, turnExpired, turn, prompt, history, call, result, err,
                   liveCtx, inFlight, nextMsg, returned>>
    /\ UNCHANGED <<askVars, diceVars, lookupVars>>

\* Mutant: the Step's Messages put in front of the history.
AppendStepInFront ==
    /\ pc = "append"
    /\ appendIdx <= Len(result)
    /\ history' = result[appendIdx] \o history
    /\ appendIdx' = appendIdx + 1
    /\ UNCHANGED <<pc, sigCancelled, turnExpired, turn, prompt, call, result, err,
                   outcome, liveCtx, inFlight, nextMsg, returned>>
    /\ UNCHANGED <<askVars, diceVars, lookupVars>>

\* lines 120-122: history = append(history, step.Messages...)
AppendStep ==
    /\ pc = "append"
    /\ appendIdx <= Len(result)
    /\ history' = history \o result[appendIdx]
    /\ appendIdx' = appendIdx + 1
    /\ UNCHANGED <<pc, sigCancelled, turnExpired, turn, prompt, call, result, err,
                   outcome, liveCtx, inFlight, nextMsg, returned>>
    /\ UNCHANGED <<askVars, diceVars, lookupVars>>

\* lines 124-126: prompt = "Continue."; next iteration
EndTurn ==
    /\ pc = "append"
    /\ appendIdx > Len(result)
    /\ prompt' = "Continue."
    /\ pc' = "loop"
    /\ UNCHANGED <<sigCancelled, turnExpired, turn, history, call, result, err,
                   appendIdx, outcome, liveCtx, inFlight, nextMsg, returned>>
    /\ UNCHANGED <<askVars, diceVars, lookupVars>>

\* src/main.go:40: os.Interrupt cancels sigCtx.
Interrupt ==
    /\ ~sigCancelled
    /\ sigCancelled' = TRUE
    /\ UNCHANGED <<pc, turnExpired, turn, prompt, history, call, result, err, appendIdx,
                   outcome, liveCtx, inFlight, nextMsg, returned>>
    /\ UNCHANGED <<askVars, diceVars, lookupVars>>

\* line 98: the 30 minute budget of the Turn context runs out.
Deadline ==
    /\ pc = "stream"
    /\ ~turnExpired
    /\ turnExpired' = TRUE
    /\ UNCHANGED <<pc, sigCancelled, turn, prompt, history, call, result, err, appendIdx,
                   outcome, liveCtx, inFlight, nextMsg, returned>>
    /\ UNCHANGED <<askVars, diceVars, lookupVars>>

----------------------------------------------------------------------------
(* askPlayer, src/main.go:214-238 *)

\* The agent dispatches an ask_player tool call; lines 215-221 print the
\* question, the options and the first prompt.
AskPlayerCall(opts) ==
    /\ pc = "stream"
    /\ toolPc = "idle"
    /\ askOptions' = opts
    /\ linesRead' = 0
    /\ toolResp' = NoResp
    /\ toolErr' = "none"
    /\ toolPc' = "scan"
    /\ UNCHANGED <<stdinClosed, scanText>>
    /\ UNCHANGED <<loopVars, diceVars, lookupVars>>

\* Mutant: choice >= len(input.Options) turned away.
ValidChoiceBelowLast(line, opts) ==
    LET choice == Atoi(TrimSpace(line))
    IN  choice.ok /\ ~(choice.val < 1) /\ ~(choice.val >= Len(opts))

\* lines 227-229: is the line a selection?
ValidChoice(line, opts) ==
    LET choice == Atoi(TrimSpace(line))
    IN  choice.ok /\ ~(choice.val < 1) /\ ~(choice.val > Len(opts))

\* Mutant: a line that is no selection ends the invocation.
AskScanLineGiveUp(line) ==
    /\ toolPc = "scan"
    /\ ~stdinClosed
    /\ linesRead < MaxReads
    /\ scanText' = line
    /\ linesRead' = linesRead + 1
    /\ toolResp' = IF ValidChoice(line, askOptions)
                   THEN [kind |-> "chose", label |-> askOptions[Atoi(TrimSpace(line)).val]]
                   ELSE [kind |-> "left", label |-> ""]
    /\ toolPc' = "return"
    /\ UNCHANGED <<askOptions, stdinClosed, toolErr>>
    /\ UNCHANGED <<loopVars, diceVars, lookupVars>>

\* lines 223-237, one iteration with playerScanner.Scan() returning true.
AskScanLine(line) ==
    /\ toolPc = "scan"
    /\ ~stdinClosed
    /\ linesRead < MaxReads
    /\ scanText' = line
    /\ linesRead' = linesRead + 1
    /\ IF ValidChoice(line, askOptions)
       THEN /\ toolResp' = [kind |-> "chose",
                            label |-> askOptions[Atoi(TrimSpace(line)).val]]
            /\ toolPc' = "return"
       ELSE /\ toolPc' = "scan"
            /\ UNCHANGED toolResp
    /\ UNCHANGED <<askOptions, stdinClosed, toolErr>>
    /\ UNCHANGED <<loopVars, diceVars, lookupVars>>

\* Mutant: end-of-input on stdin ends the game: gameLoop returns nil.
AskScanEOFEndsGame ==
    /\ toolPc = "scan"
    /\ stdinClosed
    /\ toolResp' = [kind |-> "left", label |-> ""]
    /\ toolPc' = "return"
    /\ pc' = "done"
    /\ outcome' = [ret |-> "nil", wraps |-> "none"]
    /\ UNCHANGED <<askOptions, stdinClosed, scanText, linesRead, toolErr>>
    /\ UNCHANGED <<sigCancelled, turnExpired, turn, prompt, history, call, result, err,
                   appendIdx, liveCtx, inFlight, nextMsg, returned>>
    /\ UNCHANGED <<diceVars, lookupVars>>

\* Mutant: a failed Scan() prompts again.
AskScanEOFPromptsAgain ==
    /\ toolPc = "scan"
    /\ stdinClosed
    /\ UNCHANGED <<askVars, diceVars, lookupVars>>
    /\ UNCHANGED <<loopVars, diceVars, lookupVars>>

\* lines 223-225: playerScanner.Scan() returns false.
AskScanEOF ==
    /\ toolPc = "scan"
    /\ stdinClosed
    /\ toolResp' = [kind |-> "left", label |-> ""]
    /\ toolPc' = "return"
    /\ UNCHANGED <<askOptions, stdinClosed, scanText, linesRead, toolErr>>
    /\ UNCHANGED <<loopVars, diceVars, lookupVars>>

\* The handler's result goes back to the agent, which goes on with the Step.
AskPlayerReturn ==
    /\ toolPc = "return"
    /\ toolPc' = "idle"
    /\ toolResp' = NoResp
    /\ askOptions' = <<>>
    /\ scanText' = <<>>
    /\ linesRead' = 0
    /\ UNCHANGED <<stdinClosed, toolErr>>
    /\ UNCHANGED <<loopVars, diceVars, lookupVars>>

\* os.Stdin reaches end-of-input.
CloseStdin ==
    /\ ~stdinClosed
    /\ stdinClosed' = TRUE
    /\ UNCHANGED <<toolPc, askOptions, scanText, linesRead, toolResp, toolErr>>
    /\ UNCHANGED <<loopVars, diceVars, lookupVars>>

----------------------------------------------------------------------------

Next ==
    \/ NewTurnCtx
    \/ StreamCall
    \/ \E m \in 0..MaxMsgs : AgentStep(m)
    \/ StreamReturnOK
    \/ \E kind \in ErrKinds : StreamReturnErr(kind)
    \/ CancelTurnCtx
    \/ CheckErr
    \/ AppendStep
    \/ EndTurn
    \/ Interrupt
    \/ Deadline
    \/ \E opts \in OptionLists : AskPlayerCall(opts)
    \/ \E line \in LoopLines : AskScanLine(line)
    \/ AskScanEOF
    \/ AskPlayerReturn
    \/ CloseStdin

Spec == Init /\ [][Next]_vars

\* The first Stream call is in flight and no handler runs.
FirstStream ==
    /\ pc = "stream"
    /\ sigCancelled = FALSE
    /\ turnExpired = FALSE
    /\ turn = 1
    /\ prompt = "Begin."
    /\ history = <<>>
    /\ call = [prompt |-> "Begin.", messages |-> <<>>]
    /\ result = <<>>
    /\ err = "none"
    /\ appendIdx = 0
    /\ outcome = Running
    /\ liveCtx = 1
    /\ inFlight = 1
    /\ nextMsg = 1
    /\ returned = <<>>
    /\ toolPc = "idle"
    /\ askOptions = <<>>
    /\ stdinClosed = FALSE
    /\ scanText = <<>>
    /\ linesRead = 0
    /\ toolResp = NoResp
    /\ toolErr = "none"

\* askPlayer on its own: the ask_player calls of the first Turn, for every
\* option list, fed every line of Lines.
InitAsk == FirstStream /\ DiceIdle /\ LookupIdle

NextAsk ==
    \/ \E opts \in OptionLists : AskPlayerCall(opts)
    \/ \E line \in Lines : AskScanLine(line)
    \/ AskScanEOF
    \/ AskPlayerReturn
    \/ CloseStdin

SpecAsk == InitAsk /\ [][NextAsk]_vars

\* The handler keeps running: a Scan() that can return false does.
FairSpecAsk == SpecAsk /\ WF_vars(AskScanEOF)

----------------------------------------------------------------------------
(* rollDice: src/main.go:353-372 takes (count, sides, modifier),           *)
(* src/unnamed/part_000:244-291 takes a notation string.                   *)

RECURSIVE Sum(_)
Sum(s) == IF s = <<>> THEN 0 ELSE Head(s) + Sum(Tail(s))

Max(a, b) == IF a > b THEN a ELSE b

\* strconv.Itoa / fmt's %d
RECURSIVE Itoa(_)
Itoa(n) ==
    IF n < 0 THEN <<"-">> \o Itoa(0 - n)
    ELSE IF n < 10 THEN <<Digits[n + 1]>>
    ELSE Itoa(n \div 10) \o <<Digits[(n % 10) + 1]>>

\* fmt's %+d
FormatSigned(n) == IF n < 0 THEN Itoa(n) ELSE <<"+">> \o Itoa(n)

\* strings.ToLower, on the letters of the model's alphabet
ToLower(s) ==
    [i \in 1..Len(s) |->
        CASE s[i] = "A" -> "a"
          [] s[i] = "B" -> "b"
          [] s[i] = "D" -> "d"
          [] s[i] = "O" -> "o"
          [] OTHER -> s[i]]

\* strings.IndexAny(notation[1:], "+-") followed by idx++: the place of the
\* first sign after the first character, 0 when there is none.
IndexSign(s) ==
    LET at == {p \in 2..Len(s) : s[p] \in {"+", "-"}}
    IN  IF at = {} THEN 0 ELSE CHOOSE p \in at : \A q \in at : p <= q

\* strings.SplitN(s, "d", 2)
SplitAtD(s) ==
    LET at == {p \in 1..Len(s) : s[p] = "d"}
    IN  IF at = {} THEN <<s>>
        ELSE LET p == CHOOSE x \in at : \A q \in at : x <= q
             IN  <<SubSeq(s, 1, p - 1), SubSeq(s, p + 1, Len(s))>>

RECURSIVE DigitPrefix(_)
DigitPrefix(s) ==
    IF s # <<>> /\ IsDigit(Head(s)) THEN <<Head(s)>> \o DigitPrefix(Tail(s)) ELSE <<>>

\* fmt.Sscanf(s, "%d", &modifier): leading blanks are skipped, a sign is
\* accepted, then the digits that follow are read; what comes after them is
\* left alone.  Without a digit nothing is stored.
SscanInt(s) ==
    LET t == TrimLeft(s)
        signed == t # <<>> /\ Head(t) \in {"+", "-"}
        digits == DigitPrefix(IF signed THEN Tail(t) ELSE t)
    IN  IF digits = <<>> THEN [ok |-> FALSE, val |-> 0]
        ELSE [ok |-> TRUE,
              val |-> IF signed /\ Head(t) = "-" THEN 0 - DecimalValue(digits)
                      ELSE DecimalValue(digits)]

\* part_000:245-273: what the notation-based rollDice makes of its input
\* before it draws a die.  notation[1:] of the empty string is out of range.
ParseNotation(input) ==
    LET n == TrimSpace(input)
        bad(status) == [status |-> status, notation |-> n, count |-> 0, sides |-> 0,
                        modifier |-> 0]
    IN  IF Len(n) < 1 THEN bad("panic")
        ELSE LET idx == IndexSign(n)
                 scanned == SscanInt(SubSeq(n, idx + 1, Len(n)))
                 modSign == IF idx > 0 /\ n[idx] = "-" THEN 0 - 1 ELSE 1
                 mod == IF idx > 0 /\ scanned.ok THEN scanned.val * modSign ELSE 0
                 mainPart == IF idx > 0 THEN SubSeq(n, 1, idx - 1) ELSE n
                 parts == SplitAtD(ToLower(mainPart))
             IN  IF Len(parts) # 2 THEN bad("invalid")
                 ELSE LET c == Atoi(parts[1])
                          sd == Atoi(parts[2])
                      IN  IF ~sd.ok \/ sd.val <= 0 THEN bad("invalid")
                          ELSE [status |-> "ok", notation |-> n,
                                count |-> IF ~c.ok \/ c.val <= 0 THEN 1 ELSE c.val,
                                sides |-> sd.val,
                                modifier |-> mod]

\* Characters of the generated notations, and notations given in full.
NotationChars == {" ", "+", "-", "0", "2", "d", "x"}

NotationExamples == {<<"2", "d", "6", "+", "3">>, <<"2", "D", "2", "-", "2">>}

\* The notations of the model: those that ask for no more than MaxDice dice of
\* no more than MaxSides sides.
Notations ==
    {s \in SeqsUpTo(NotationChars, MaxNotationLen) \cup NotationExamples :
        LET q == ParseNotation(s)
        IN  q.status = "ok" => (q.count <= MaxDice /\ q.sides <= MaxSides)}

DiceInputs ==
    {[form |-> "notation", Notation |-> s, Count |-> 0, Sides |-> 0, Modifier |-> 0] :
        s \in Notations}
    \cup [form : {"struct"}, Notation : {<<>>}, Count : (0 - 1)..MaxDice,
          Sides : (0 - 1)..MaxSides, Modifier : (0 - MaxModifier)..MaxModifier]

\* part_000:245-275
RollDiceNotation ==
    /\ dicePc = "call"
    /\ diceIn.form = "notation"
    /\ LET q == ParseNotation(diceIn.Notation)
       IN  /\ notation' = q.notation
           /\ count' = q.count
           /\ sides' = q.sides
           /\ modifier' = q.modifier
           /\ dicePc' = CASE q.status = "panic" -> "panic"
                          [] q.status = "invalid" -> "return"
                          [] OTHER -> "roll"
           /\ diceResp' = IF q.status = "invalid"
                          THEN [kind |-> "invalid", notation |-> q.notation,
                                rolls |-> <<>>, mod |-> <<>>, total |-> 0]
                          ELSE diceResp
    /\ UNCHANGED <<diceIn, rolls, total>>
    /\ UNCHANGED <<loopVars, askVars, lookupVars>>

\* main.go:354-358
RollDiceStruct ==
    /\ dicePc = "call"
    /\ diceIn.form = "struct"
    /\ count' = Max(diceIn.Count, 1)
    /\ sides' = Max(diceIn.Sides, 1)
    /\ modifier' = diceIn.Modifier
    /\ dicePc' = "roll"
    /\ UNCHANGED <<diceIn, notation, rolls, total, diceResp>>
    /\ UNCHANGED <<loopVars, askVars, lookupVars>>

\* Mutant: the die's face taken as rand.Int returns it.
DieFaceFromZero(n) == n

\* main.go:361, part_000:279: rolls[i] = int(n.Int64()) + 1
DieFace(n) == n + 1

\* main.go:359-363, part_000:277-281: one die, n drawn by rand.Int from [0, sides)
RollDie(n) ==
    /\ dicePc = "roll"
    /\ Len(rolls) < count
    /\ rolls' = Append(rolls, DieFace(n))
    /\ total' = total + DieFace(n)
    /\ UNCHANGED <<dicePc, diceIn, notation, count, sides, modifier, diceResp>>
    /\ UNCHANGED <<loopVars, askVars, lookupVars>>

\* part_000:282-290
FinishNotation ==
    /\ dicePc = "roll"
    /\ diceIn.form = "notation"
    /\ Len(rolls) = count
    /\ total' = total + modifier
    /\ diceResp' = [kind |-> "roll", notation |-> notation, rolls |-> rolls,
                    mod |-> IF modifier # 0 THEN FormatSigned(modifier) ELSE <<>>,
                    total |-> total + modifier]
    /\ dicePc' = "return"
    /\ UNCHANGED <<diceIn, notation, count, sides, modifier, rolls>>
    /\ UNCHANGED <<loopVars, askVars, lookupVars>>

\* main.go:364-371
FinishStruct ==
    /\ dicePc = "roll"
    /\ diceIn.form = "struct"
    /\ Len(rolls) = count
    /\ total' = total + diceIn.Modifier
    /\ notation' = Itoa(count) \o <<"d">> \o Itoa(sides)
                   \o (IF diceIn.Modifier # 0 THEN FormatSigned(diceIn.Modifier) ELSE <<>>)
    /\ diceResp' = [kind |-> "roll", notation |-> notation', rolls |-> rolls,
                    mod |-> <<>>, total |-> total + diceIn.Modifier]
    /\ dicePc' = "return"
    /\ UNCHANGED <<diceIn, count, sides, modifier, rolls>>
    /\ UNCHANGED <<loopVars, askVars, lookupVars>>

\* roll_dice on its own: one call for every input of DiceInputs.
InitDice ==
    /\ FirstStream
    /\ dicePc = "call"
    /\ diceIn \in DiceInputs
    /\ notation = <<>>
    /\ count = 0
    /\ sides = 0
    /\ modifier = 0
    /\ rolls = <<>>
    /\ total = 0
    /\ diceResp = NoDiceResp
    /\ LookupIdle

NextDice ==
    \/ RollDiceNotation
    \/ RollDiceStruct
    \/ \E n \in 0..(sides - 1) : RollDie(n)
    \/ FinishNotation
    \/ FinishStruct

SpecDice == InitDice /\ [][NextDice]_vars

----------------------------------------------------------------------------
(* lookupMonster, lookupSpell and their helpers, src/main.go:248-341, 378-404 *)

\* m[key] on a map[string]any (a nil map included): the entry's value, or nil.
Index(m, key) ==
    IF \E i \in 1..Len(m.items) : m.items[i].k = key
    THEN m.items[CHOOSE i \in 1..Len(m.items) : m.items[i].k = key].v
    ELSE Nil

\* fmt's rendering of a value under the verb %v or %s.  A nil prints as <nil>
\* under %v and as %!s(<nil>) under %s, a number under %s as %!s(float64=..),
\* a list as [a b], a map as map[k:v k:v] in key order.
RECURSIVE Sprint(_, _)
RECURSIVE SprintItems(_, _, _, _)
Sprint(verb, v) ==
    CASE v.t = "nil" -> IF verb = "v" THEN "<nil>" ELSE "%!s(<nil>)"
      [] v.t = "string" -> v.s
      [] v.t = "float64" -> IF verb = "v" THEN v.s ELSE "%!s(float64=" \o v.s \o ")"
      [] v.t = "list" -> "[" \o SprintItems(verb, v.items, 1, FALSE) \o "]"
      [] OTHER -> "map[" \o SprintItems(verb, v.items, 1, TRUE) \o "]"

SprintItems(verb, items, i, keyed) ==
    IF i > Len(items) THEN ""
    ELSE (IF i > 1 THEN " " ELSE "")
         \o (IF keyed THEN items[i].k \o ":" ELSE "")
         \o Sprint(verb, items[i].v)
         \o SprintItems(verb, items, i + 1, keyed)

\* lines 378-385
formatAC(ac) ==
    IF ac.t = "list" /\ Len(ac.items) > 0
    THEN IF ac.items[1].v.t = "map"
         THEN Sprint("v", Index(ac.items[1].v, "value"))
         ELSE "?"
    ELSE "?"

\* The orders in which `for k, v := range m` may visit n entries.
Orders(n) == {f \in [1..n -> 1..n] : \A i, j \in 1..n : i # j => f[i] # f[j]}

\* The orders the range loop over v may take; a value that is no map has no loop.
RangeOrders(v) == Orders(IF v.t = "map" THEN Len(v.items) ELSE 0)

\* strings.Join(parts, sep), from the i-th part on.
RECURSIVE Join(_, _, _)
Join(parts, sep, i) ==
    IF i > Len(parts) THEN ""
    ELSE (IF i > 1 THEN sep ELSE "") \o parts[i] \o Join(parts, sep, i + 1)

\* lines 387-397, the map visited in the given order
formatSpeed(speed, order) ==
    IF speed.t # "map" THEN "?"
    ELSE LET parts == [i \in 1..Len(speed.items) |->
                          speed.items[order[i]].k \o " "
                              \o Sprint("v", speed.items[order[i]].v)]
         IN  Join(parts, ", ", 1)

\* lines 399-404
formatSchool(school) ==
    IF school.t = "map" THEN Sprint("v", Index(school, "name")) ELSE "?"

\* strings.ReplaceAll(s, " ", "-")
ReplaceSpaces(s) == [i \in 1..Len(s) |-> IF s[i] = " " THEN "-" ELSE s[i]]

\* lines 249, 303: slug := strings.ToLower(strings.ReplaceAll(input.Name, " ", "-"))
Slug(name) == ToLower(ReplaceSpaces(name))

\* lines 262-263, 316-317: json.Unmarshal(body, &m) fills the map from a JSON
\* object; for any other body it returns an error, which the code drops, and
\* the map stays nil.
Unmarshal(body) == IF body.t = "map" THEN body ELSE JObject(<<>>)

\* input.Name as the agent may give it: plain, with capitals and spaces,
\* already a slug, and empty.
LookupNames ==
    { <<"O", "w", "l", "b", "e", "a", "r">>,
      <<"A", "d", "u", "l", "t", " ", "B", "l", "a", "c", "k", " ", "D", "r", "a", "g", "o", "n">>,
      <<"f", "i", "r", "e", "-", "b", "o", "l", "t">>,
      <<>> }

LookupKinds == {"Monster", "Spell"}

\* What a list of a record may hold: a string, an object without the fields
\* that are looked for, an action or ability, an armor class entry.
ElemValues ==
    { JString("natural"),
      JObject(<<>>),
      JObject(<<Field("desc", JString("Melee Weapon Attack.")), Field("name", JString("Bite"))>>),
      JObject(<<Field("type", JString("natural")), Field("value", JNumber("13"))>>) }

ListValues == {JList(xs) : xs \in SeqsUpTo(ElemValues, MaxItems)}

\* The shapes a field of a record may have.
FieldValues ==
    { Nil,
      JString("Large"),
      JNumber("3"),
      JObject(<<>>),
      JObject(<<Field("fly", JString("60 ft.")), Field("walk", JString("40 ft."))>>),
      JObject(<<Field("index", JString("evocation")), Field("name", JString("Evocation"))>>),
      JObject(<<Field("damage_at_slot_level", JString("8d6"))>>),
      JObject(<<Field("damage_at_slot_level",
                      JObject(<<Field("3", JString("8d6")), Field("4", JString("9d6"))>>))>>) }
        \cup ListValues

\* A record of /api/monsters as the service documents it.
Owlbear ==
    JObject(<< Field("actions", JList(<<JObject(<<Field("desc", JString("Melee Weapon Attack.")),
                                                  Field("name", JString("Beak"))>>)>>)),
               Field("armor_class", JList(<<JObject(<<Field("type", JString("natural")),
                                                      Field("value", JNumber("13"))>>)>>)),
               Field("challenge_rating", JNumber("3")),
               Field("charisma", JNumber("7")),
               Field("constitution", JNumber("17")),
               Field("dexterity", JNumber("12")),
               Field("hit_dice", JString("7d10")),
               Field("hit_points", JNumber("59")),
               Field("intelligence", JNumber("3")),
               Field("name", JString("Owlbear")),
               Field("size", JString("Large")),
               Field("special_abilities", JList(<<JObject(<<Field("desc", JString("Advantage on Perception.")),
                                                            Field("name", JString("Keen Sight"))>>)>>)),
               Field("speed", JObject(<<Field("walk", JString("40 ft."))>>)),
               Field("strength", JNumber("20")),
               Field("type", JString("monstrosity")),
               Field("wisdom", JNumber("12")) >>)

\* A record of /api/spells as the service documents it.
Fireball ==
    JObject(<< Field("casting_time", JString("1 action")),
               Field("components", JList(<<JString("V"), JString("S"), JString("M")>>)),
               Field("damage", JObject(<<Field("damage_at_slot_level",
                                               JObject(<<Field("3", JString("8d6")),
                                                         Field("4", JString("9d6"))>>))>>)),
               Field("desc", JList(<<JString("A bright streak flashes.")>>)),
               Field("duration", JString("Instantaneous")),
               Field("level", JNumber("3")),
               Field("name", JString("Fireball")),
               Field("range", JString("150 feet")),
               Field("school", JObject(<<Field("index", JString("evocation")),
                                         Field("name", JString("Evocation"))>>)) >>)

Keys(rec) == {rec.items[i].k : i \in 1..Len(rec.items)}

\* The record with the field key holding v instead.
With(rec, key, v) ==
    JObject([i \in 1..Len(rec.items) |->
                IF rec.items[i].k = key THEN Field(key, v) ELSE rec.items[i]])

\* The record with the field key left out.
Without(rec, key) == JObject(SelectSeq(rec.items, LAMBDA f : f.k # key))

\* A body that is no JSON text at all.
Garbage == [t |-> "invalid", s |-> "<html>", items |-> <<>>]

\* The bodies a 200 reply may carry: a documented record, one with a field
\* of another shape or left out, an empty object, and bodies that are no
\* JSON object (null, a list, a string, no JSON).
Bodies ==
    {Owlbear, Fireball}
        \cup {With(r, key, v) : r \in {Owlbear}, key \in Keys(Owlbear), v \in FieldValues}
        \cup {With(r, key, v) : r \in {Fireball}, key \in Keys(Fireball), v \in FieldValues}
        \cup {Without(Owlbear, key) : key \in Keys(Owlbear)}
        \cup {Without(Fireball, key) : key \in Keys(Fireball)}
        \cup {JObject(<<>>), Nil, JList(<<>>), JString("ok"), Garbage}

\* resp.StatusCode and the body of the replies of the service.
Replies ==
    [status : {200}, body : Bodies] \cup [status : {404, 500}, body : {Garbage}]

Text(tokens) == [kind |-> "text", text |-> tokens, err |-> "nil"]

\* The agent dispatches a lookup_monster or lookup_spell call; lines 249, 303.
LookupCall(kind, name) ==
    /\ lkPc = "idle"
    /\ lkIn' = [kind |-> kind, name |-> name]
    /\ lkSlug' = Slug(name)
    /\ lkPc' = "get"
    /\ UNCHANGED <<lkHttp, lkRec, lkIdx, lkSummary, lkResp>>
    /\ UNCHANGED <<loopVars, askVars, diceVars>>

\* lines 251-254, 305-308: http.Get returns an error.
HttpGetFails ==
    /\ lkPc = "get"
    /\ lkHttp' = [err |-> TRUE, status |-> 0, body |-> Nil]
    /\ lkResp' = Text(<<"Failed to reach D&D API">>)
    /\ lkPc' = "return"
    /\ UNCHANGED <<lkIn, lkSlug, lkRec, lkIdx, lkSummary>>
    /\ UNCHANGED <<loopVars, askVars, diceVars>>

\* lines 251, 305: http.Get returns the service's reply.
HttpGetReplies(reply) ==
    /\ lkPc = "get"
    /\ lkHttp' = [err |-> FALSE, status |-> reply.status, body |-> reply.body]
    /\ lkPc' = "status"
    /\ UNCHANGED <<lkIn, lkSlug, lkRec, lkIdx, lkSummary, lkResp>>
    /\ UNCHANGED <<loopVars, askVars, diceVars>>

\* Mutant: the text names the slug that was asked for.
NotFoundNamesSlug ==
    /\ lkPc = "status"
    /\ lkHttp.status # 200
    /\ lkResp' = Text(<<lkIn.kind \o " '">> \o lkSlug \o <<"' not found">>)
    /\ lkPc' = "return"
    /\ UNCHANGED <<lkIn, lkSlug, lkHttp, lkRec, lkIdx, lkSummary>>
    /\ UNCHANGED <<loopVars, askVars, diceVars>>

\* lines 257-259, 311-313: Sprintf("Monster '%s' not found", input.Name)
NotFound ==
    /\ lkPc = "status"
    /\ lkHttp.status # 200
    /\ lkResp' = Text(<<lkIn.kind \o " '">> \o lkIn.name \o <<"' not found">>)
    /\ lkPc' = "return"
    /\ UNCHANGED <<lkIn, lkSlug, lkHttp, lkRec, lkIdx, lkSummary>>
    /\ UNCHANGED <<loopVars, askVars, diceVars>>

\* lines 261-263, 315-317: the body is read and decoded.
Decode ==
    /\ lkPc = "status"
    /\ lkHttp.status = 200
    /\ lkRec' = Unmarshal(lkHttp.body)
    /\ lkPc' = "summary"
    /\ UNCHANGED <<lkIn, lkSlug, lkHttp, lkIdx, lkSummary, lkResp>>
    /\ UNCHANGED <<loopVars, askVars, diceVars>>

\* lines 265-273
MonsterSummary(order) ==
    /\ lkPc = "summary"
    /\ lkIn.kind = "Monster"
    /\ lkSummary' =
         << Sprint("s", Index(lkRec, "name")), " (",
            Sprint("s", Index(lkRec, "size")), " ",
            Sprint("s", Index(lkRec, "type")), ", CR ",
            Sprint("v", Index(lkRec, "challenge_rating")), ") | AC ",
            formatAC(Index(lkRec, "armor_class")), " | HP ",
            Sprint("v", Index(lkRec, "hit_points")), " (",
            Sprint("v", Index(lkRec, "hit_dice")), ")\nSTR ",
            Sprint("v", Index(lkRec, "strength")), " DEX ",
            Sprint("v", Index(lkRec, "dexterity")), " CON ",
            Sprint("v", Index(lkRec, "constitution")), " INT ",
            Sprint("v", Index(lkRec, "intelligence")), " WIS ",
            Sprint("v", Index(lkRec, "wisdom")), " CHA ",
            Sprint("v", Index(lkRec, "charisma")), " | Speed: ",
            formatSpeed(Index(lkRec, "speed"), order) >>
    /\ lkPc' = "ifActions"
    /\ UNCHANGED <<lkIn, lkSlug, lkHttp, lkRec, lkIdx, lkResp>>
    /\ UNCHANGED <<loopVars, askVars, diceVars>>

\* lines 275-276, 283-284: if list, ok := m[key].([]any); ok { summary += title
BeginList(here, key, title, after) ==
    /\ lkPc = here
    /\ IF Index(lkRec, key).t = "list"
       THEN /\ lkSummary' = Append(lkSummary, title)
            /\ lkIdx' = 1
            /\ lkPc' = key
       ELSE /\ lkPc' = after
            /\ UNCHANGED <<lkSummary, lkIdx>>
    /\ UNCHANGED <<lkIn, lkSlug, lkHttp, lkRec, lkResp>>
    /\ UNCHANGED <<loopVars, askVars, diceVars>>

\* lines 277-280, 285-288: one iteration.  act := a.(map[string]any) panics
\* when the element is no JSON object.
ListItem(key) ==
    /\ lkPc = key
    /\ lkIdx <= Len(Index(lkRec, key).items)
    /\ LET a == Index(lkRec, key).items[lkIdx].v
       IN  IF a.t = "map"
           THEN /\ lkSummary' = lkSummary \o << "\n- ", Sprint("s", Index(a, "name")),
                                               ": ", Sprint("s", Index(a, "desc")) >>
                /\ lkIdx' = lkIdx + 1
                /\ UNCHANGED lkPc
           ELSE /\ lkPc' = "panic"
                /\ UNCHANGED <<lkSummary, lkIdx>>
    /\ UNCHANGED <<lkIn, lkSlug, lkHttp, lkRec, lkResp>>
    /\ UNCHANGED <<loopVars, askVars, diceVars>>

\* lines 280-281, 288-289: the range loop is over.
EndList(key, after) ==
    /\ lkPc = key
    /\ lkIdx > Len(Index(lkRec, key).items)
    /\ lkPc' = after
    /\ UNCHANGED <<lkIn, lkSlug, lkHttp, lkRec, lkIdx, lkSummary, lkResp>>
    /\ UNCHANGED <<loopVars, askVars, diceVars>>

BeginActions == BeginList("ifActions", "actions", "\nActions:", "ifAbilities")

ActionItem == ListItem("actions")

EndActions == EndList("actions", "ifAbilities")

BeginAbilities == BeginList("ifAbilities", "special_abilities", "\nSpecial Abilities:", "finish")

AbilityItem == ListItem("special_abilities")

EndAbilities == EndList("special_abilities", "finish")

\* lines 319-329
SpellSummary ==
    /\ lkPc = "summary"
    /\ lkIn.kind = "Spell"
    /\ LET descs == Index(lkRec, "desc")
           desc == IF descs.t = "list" /\ Len(descs.items) > 0
                   THEN Sprint("v", descs.items[1].v)
                   ELSE ""
       IN  lkSummary' =
             << Sprint("s", Index(lkRec, "name")), " (Level ",
                Sprint("v", Index(lkRec, "level")), " ",
                formatSchool(Index(lkRec, "school")), ") | ",
                Sprint("s", Index(lkRec, "casting_time")), " | Range: ",
                Sprint("s", Index(lkRec, "range")), " | Duration: ",
                Sprint("s", Index(lkRec, "duration")), "\nComponents: ",
                Sprint("v", Index(lkRec, "components")), "\n",
                desc >>
    /\ lkPc' = "damage"
    /\ UNCHANGED <<lkIn, lkSlug, lkHttp, lkRec, lkIdx, lkResp>>
    /\ UNCHANGED <<loopVars, askVars, diceVars>>

\* s["damage"]["damage_at_slot_level"] when both are maps, else nil.
AtSlot(rec) ==
    LET dmg == Index(rec, "damage")
        at == IF dmg.t = "map" THEN Index(dmg, "damage_at_slot_level") ELSE Nil
    IN  IF at.t = "map" THEN at ELSE Nil

\* The " L%s=%v" pieces of the entries from the i-th visited on.
RECURSIVE SlotPieces(_, _, _)
SlotPieces(at, order, i) ==
    IF i > Len(at.items) THEN <<>>
    ELSE << " L", at.items[order[i]].k, "=", Sprint("v", at.items[order[i]].v) >>
             \o SlotPieces(at, order, i + 1)

\* lines 331-338, the map visited in the given order
SpellDamage(order) ==
    /\ lkPc = "damage"
    /\ lkSummary' = IF AtSlot(lkRec).t = "map"
                    THEN Append(lkSummary, "\nDamage by slot:")
                             \o SlotPieces(AtSlot(lkRec), order, 1)
                    ELSE lkSummary
    /\ lkPc' = "finish"
    /\ UNCHANGED <<lkIn, lkSlug, lkHttp, lkRec, lkIdx, lkResp>>
    /\ UNCHANGED <<loopVars, askVars, diceVars>>

\* lines 291, 340: return fantasy.NewTextResponse(summary), nil
LookupReturn ==
    /\ lkPc = "finish"
    /\ lkResp' = Text(lkSummary)
    /\ lkPc' = "return"
    /\ UNCHANGED <<lkIn, lkSlug, lkHttp, lkRec, lkIdx, lkSummary>>
    /\ UNCHANGED <<loopVars, askVars, diceVars>>

\* The lookup handlers on their own: one call of either, in the first Turn,
\* for every name of LookupNames and every reply of Replies.
InitLookup == FirstStream /\ DiceIdle /\ LookupIdle

NextLookup ==
    \/ \E kind \in LookupKinds, name \in LookupNames : LookupCall(kind, name)
    \/ HttpGetFails
    \/ \E reply \in Replies : HttpGetReplies(reply)
    \/ NotFound
    \/ Decode
    \/ \E order \in RangeOrders(Index(lkRec, "speed")) : MonsterSummary(order)
    \/ BeginActions
    \/ ActionItem
    \/ EndActions
    \/ BeginAbilities
    \/ AbilityItem
    \/ EndAbilities
    \/ SpellSummary
    \/ \E order \in RangeOrders(AtSlot(lkRec)) : SpellDamage(order)
    \/ LookupReturn

SpecLookup == InitLookup /\ [][NextLookup]_vars

----------------------------------------------------------------------------
(* Fairness: gameLoop and the handlers keep running, the agent hands a     *)
(* handler's result on, and a Stream call whose context is cancelled       *)
(* returns.  The player and the operator owe nothing.                      *)

LoopStep == NewTurnCtx \/ StreamCall \/ CancelTurnCtx \/ CheckErr \/ AppendStep \/ EndTurn

FairSpec ==
    /\ Spec
    /\ WF_vars(LoopStep)
    /\ WF_vars(AskScanEOF)
    /\ WF_vars(AskPlayerReturn)
    /\ WF_vars(StreamReturnErr("cancelled"))

----------------------------------------------------------------------------
(* Claims about gameLoop *)

StreamFailed == pc = "check" /\ err # "none"

\* C1: when sigCtx has been cancelled and the Stream call returned an error,
\* gameLoop returns nil and no error, whatever the error and the Turn.
C1_CancelledEndsGracefully ==
    [][(StreamFailed /\ sigCancelled /\ pc' # pc)
         => (pc' = "done" /\ outcome'.ret = "nil")]_vars

C1_Witness ==
    /\ pc = "done"
    /\ outcome.ret = "nil"
    /\ err = "transport"
    /\ turn = 2

NoDuplicates(s) == \A i, j \in 1..Len(s) : i # j => s[i] # s[j]

\* C2: the history is the Messages of every successful Stream result, in Turn,
\* Step and Message order, each once; it only grows at its end, and the
\* history a Stream call receives extends the one the call before received.
C2_HistoryIsEmissionOrder ==
    /\ [](pc \in {"loop", "call", "stream", "done"} => history = returned)
    /\ [](IsPrefix(history, returned) /\ NoDuplicates(history))
    /\ [][IsPrefix(history, history')]_vars
    /\ [][turn' # turn => (IsPrefix(call.messages, call'.messages)
                           /\ call'.messages = returned)]_vars

C2_Witness ==
    /\ pc = "loop"
    /\ turn = 2
    /\ Len(history) >= 3
    /\ \E i \in 1..Len(result) : Len(result[i]) = 2

\* C3 as claimed: a Stream failure that is a transport error, a Step failure or
\* a timeout makes gameLoop return the wrapped error.
C3_UncancelledCauseIsFatal ==
    (pc = "done" /\ err \in {"transport", "step", "timeout"})
        => (outcome.ret = "error" /\ outcome.wraps = err)

\* C3, amended: a Stream failure met while sigCtx is not cancelled is fatal,
\* gameLoop returns the wrapped error; a failure met once sigCtx is cancelled
\* ends the loop with nil, whatever failed; either way no Stream call follows.
C3_FailureEndsLoop ==
    /\ [][(StreamFailed /\ pc' # pc)
            => /\ pc' = "done"
               /\ outcome' = IF sigCancelled THEN [ret |-> "nil", wraps |-> "none"]
                             ELSE [ret |-> "error", wraps |-> err]]_vars
    /\ [][pc = "done" => (pc' = "done" /\ turn' = turn /\ inFlight' = inFlight
                          /\ outcome' = outcome)]_vars
    /\ [](pc = "done" <=> outcome # Running)

C3_Witness ==
    /\ pc = "done"
    /\ outcome = [ret |-> "error", wraps |-> "timeout"]
    /\ ~sigCancelled
    /\ inFlight = 0

\* C4: at most one Stream call is in flight and at most one Turn context is
\* live; a Stream call starts when the one before has returned, its context is
\* cancelled and its Messages are in the history.
C4_TurnsAreSequential ==
    /\ [](inFlight <= 1 /\ liveCtx <= 1)
    /\ [](pc = "stream" <=> inFlight = 1)
    /\ [][turn' # turn => (inFlight = 0 /\ liveCtx = 1 /\ inFlight' = 1
                           /\ history = returned)]_vars
    /\ [](pc = "loop" => liveCtx = 0)

C4_Witness ==
    /\ pc = "stream"
    /\ turn = 2
    /\ call.prompt = "Continue."
    /\ call.messages # <<>>

\* C5: once sigCtx is cancelled while askPlayer waits for a line, askPlayer
\* stops waiting, with no line typed and the input stream left open.
C5_AskPlayerHonoursCancel ==
    (sigCancelled /\ toolPc = "scan" /\ ~stdinClosed)
        ~> (toolPc # "scan" \/ stdinClosed \/ linesRead = MaxReads)

----------------------------------------------------------------------------
(* Claims about askPlayer *)

\* The number a line selects among n options: k when the trimmed line is an
\* integer k of 1..n, else 0.
Selection(line, n) ==
    LET k == Atoi(TrimSpace(line))
    IN  IF k.ok /\ k.val \in 1..n THEN k.val ELSE 0

LineRead == toolPc = "scan" /\ linesRead' = linesRead + 1

LeftGame == [kind |-> "left", label |-> ""]

\* C6: a line that trims to an integer k of 1..n makes askPlayer return
\* "The player chose: <options[k-1]>", and askPlayer reads nothing after it.
C6_SelectionReturnsKthOption ==
    /\ [][(LineRead /\ Selection(scanText', Len(askOptions)) # 0)
            => /\ toolPc' = "return"
               /\ toolErr' = "none"
               /\ toolResp' = [kind |-> "chose",
                               label |-> askOptions[Selection(scanText', Len(askOptions))]]
         ]_vars
    /\ [][toolPc = "return" => (toolPc' # "scan" /\ linesRead' <= linesRead)]_vars

C6_Witness ==
    /\ toolPc = "return"
    /\ Len(askOptions) = 5
    /\ scanText = <<" ", "3">>
    /\ toolResp = [kind |-> "chose", label |-> "east"]
    /\ linesRead = 2

\* C7: a line that is no integer of 1..n gives no response: askPlayer has read
\* that one line, keeps its options and prompts again, and the Turn and its
\* Steps are as they were.
C7_InvalidLinePromptsAgain ==
    /\ [][(LineRead /\ Selection(scanText', Len(askOptions)) = 0)
            => /\ toolPc' = "scan"
               /\ toolResp' = NoResp
               /\ toolErr' = "none"
               /\ askOptions' = askOptions
               /\ turn' = turn /\ result' = result /\ pc' = pc
         ]_vars
    /\ [](toolPc = "scan" => toolResp = NoResp)

C7_Witness ==
    /\ toolPc = "scan"
    /\ linesRead = 2
    /\ scanText = <<"0">>
    /\ Len(askOptions) = 3

\* C8: at end-of-input askPlayer returns "The player has left the game." and
\* no error, after any number of lines and for any option list, and it does so
\* in every later invocation: it never waits on the closed stream.
C8_EndOfInputReturnsLeft ==
    /\ [][(toolPc = "scan" /\ stdinClosed /\ toolPc' # toolPc)
            => (toolPc' = "return" /\ toolResp' = LeftGame /\ toolErr' = "none")]_vars
    /\ [][stdinClosed => stdinClosed']_vars
    /\ (toolPc = "scan" /\ stdinClosed) ~> (toolPc = "return" /\ toolResp = LeftGame)

C8_Witness ==
    /\ stdinClosed
    /\ toolPc = "return"
    /\ toolResp = LeftGame
    /\ askOptions = <<>>
    /\ linesRead = 2

----------------------------------------------------------------------------
(* Claims about rollDice *)

\* What a notation <count>d<sides>[+|-<modifier>] asks for: every reading of s
\* as digits, "d", digits and, optionally, a sign and digits.
NotationReadings(s) ==
    {[count |-> DecimalValue(SubSeq(s, 1, i - 1)),
      sides |-> DecimalValue(SubSeq(s, i + 1, j - 1)),
      modifier |-> IF j > Len(s) THEN 0
                   ELSE (IF s[j] = "-" THEN 0 - 1 ELSE 1)
                        * DecimalValue(SubSeq(s, j + 1, Len(s)))] :
        <<i, j>> \in {<<i, j>> \in (1..Len(s)) \X (1..(Len(s) + 1)) :
            /\ i < j
            /\ s[i] = "d"
            /\ AllDigits(SubSeq(s, 1, i - 1))
            /\ AllDigits(SubSeq(s, i + 1, j - 1))
            /\ j <= Len(s) => (s[j] \in {"+", "-"} /\ AllDigits(SubSeq(s, j + 1, Len(s))))}}

\* The valid dice specifications an input states (none or one).
Requested(in) ==
    {r \in (IF in.form = "struct"
            THEN {[count |-> in.Count, sides |-> in.Sides, modifier |-> in.Modifier]}
            ELSE IF in.form = "notation" THEN NotationReadings(in.Notation)
            ELSE {}) :
        r.count >= 1 /\ r.sides >= 1}

\* C9: for a valid dice specification, in either form, rollDice draws count
\* dice, each of 1..sides, reports them, and reports their sum plus modifier.
C9_RollMatchesSpecification ==
    \A r \in Requested(diceIn) :
        /\ dicePc # "panic"
        /\ Len(rolls) <= r.count
        /\ \A i \in 1..Len(rolls) : rolls[i] \in 1..r.sides
        /\ dicePc = "return"
             => /\ diceResp.kind = "roll"
                /\ Len(rolls) = r.count
                /\ diceResp.rolls = rolls
                /\ diceResp.total = Sum(rolls) + r.modifier
                /\ total = diceResp.total

C9_Witness ==
    /\ dicePc = "return"
    /\ diceIn.Notation = <<"2", "d", "6", "+", "3">>
    /\ Requested(diceIn) = {[count |-> 2, sides |-> 6, modifier |-> 3]}
    /\ diceResp.rolls = <<4, 5>>
    /\ diceResp.total = 12

\* The sides part of a trimmed notation: what follows its first "d", up to the
\* next sign.
SidesPart(t) ==
    LET d == CHOOSE i \in 1..Len(t) :
                 t[i] \in {"d", "D"} /\ \A k \in 1..(i - 1) : t[k] \notin {"d", "D"}
        signs == {j \in (d + 1)..Len(t) : t[j] \in {"+", "-"}}
        end == IF signs = {} THEN Len(t) + 1 ELSE CHOOSE j \in signs : \A k \in signs : j <= k
    IN  SubSeq(t, d + 1, end - 1)

\* A notation with no "d", or whose sides part is no number or not positive.
Malformed(s) ==
    LET t == TrimSpace(s)
    IN  IF \A i \in 1..Len(t) : t[i] \notin {"d", "D"} THEN TRUE
        ELSE ~Atoi(SidesPart(t)).ok \/ Atoi(SidesPart(t)).val <= 0

\* C10: for a malformed notation the notation-based rollDice returns
\* "Invalid dice notation: <notation>", draws no die and does not panic.
C10_MalformedNotationIsReported ==
    (diceIn.form = "notation" /\ Malformed(diceIn.Notation))
        => /\ dicePc # "panic"
           /\ rolls = <<>>
           /\ dicePc # "call"
                => /\ dicePc = "return"
                   /\ diceResp = [kind |-> "invalid", notation |-> TrimSpace(diceIn.Notation),
                                  rolls |-> <<>>, mod |-> <<>>, total |-> 0]

\* C11: in the structured form a count that is omitted (0), zero or negative
\* counts as 1, and a sides value that is omitted (0), zero or negative gets
\* the "invalid notation" response, with no die drawn and no total.
C11_StructuredSidesMustBePositive ==
    (diceIn.form = "struct" /\ dicePc \in {"roll", "return"})
        => /\ diceIn.Count <= 0 => count = 1
           /\ diceIn.Sides <= 0
                => /\ rolls = <<>>
                   /\ dicePc = "return"
                   /\ diceResp.kind = "invalid"
                   /\ diceResp.total = 0

----------------------------------------------------------------------------
(* Claims about the game as a whole *)

\* The Turn t has come back from Stream without an error.
TurnSucceeded(t) == pc = "check" /\ err = "none" /\ turn = t

\* C15: gameLoop ends only with nil or with a fatal error, and only from a
\* Stream call that returned an error; the first Turn is prompted "Begin."
\* and every later one "Continue."; a handler's outcome, "player has left the
\* game" included, leaves gameLoop where it is; and every Turn that succeeded
\* is followed by the Stream call of the next Turn.
C15_OnlyStreamFailureEndsTheGame ==
    /\ [][(pc' = "done" /\ pc # "done") => StreamFailed]_vars
    /\ [][outcome' # outcome
            => (StreamFailed /\ outcome = Running /\ outcome'.ret \in {"nil", "error"})]_vars
    /\ [](outcome # Running <=> pc = "done")
    /\ [][turn' # turn
            => (turn' = turn + 1
                /\ call'.prompt = IF turn = 0 THEN "Begin." ELSE "Continue.")]_vars
    /\ [][(toolPc = "scan" \/ toolPc' # toolPc) => UNCHANGED <<pc, outcome, prompt>>]_vars
    /\ \A t \in 1..(MaxTurns - 1) :
         TurnSucceeded(t) ~> (pc = "stream" /\ turn = t + 1 /\ call.prompt = "Continue.")

\* In the second Turn ask_player has answered that the player has left, and
\* gameLoop is still inside its Stream call.
C15_Witness ==
    /\ pc = "stream"
    /\ turn = 2
    /\ call.prompt = "Continue."
    /\ toolPc = "return"
    /\ toolResp = LeftGame
    /\ outcome = Running

----------------------------------------------------------------------------
(* Claims about the lookup handlers *)

\* C12: a lookup whose http.Get failed answers the text "Failed to reach D&D
\* API", one whose reply has status 404 answers "<Kind> '<name>' not found"
\* with the name as it was given, not the slug; both with a nil error.
C12_UnreachableAndNotFoundAreText ==
    /\ (lkHttp.err \/ lkHttp.status = 404) => lkPc \in {"status", "return"}
    /\ (lkPc = "return" /\ lkHttp.err)
         => lkResp = [kind |-> "text", text |-> <<"Failed to reach D&D API">>, err |-> "nil"]
    /\ (lkPc = "return" /\ lkHttp.status = 404)
         => /\ lkResp.kind = "text"
            /\ lkResp.err = "nil"
            /\ Head(lkResp.text) = lkIn.kind \o " '"
            /\ SubSeq(lkResp.text, 2, Len(lkIn.name) + 1) = lkIn.name
            /\ Len(lkResp.text) = Len(lkIn.name) + 2
            /\ lkResp.text[Len(lkResp.text)] = "' not found"

\* A name with capitals and spaces was not found.
C12_Witness ==
    /\ lkPc = "return"
    /\ lkHttp.status = 404
    /\ lkSlug # lkIn.name
    /\ \E i \in 1..Len(lkIn.name) : lkIn.name[i] = " "
    /\ lkResp.kind = "text"

\* C13: a lookup whose reply has status 200 ends with a text response and a
\* nil error whatever the body holds; it never panics.
C13_AnyBodyYieldsText ==
    (~lkHttp.err /\ lkHttp.status = 200)
        => /\ lkPc # "panic"
           /\ lkPc = "return" => (lkResp.kind = "text" /\ lkResp.err = "nil")

\* What the armor class of a record is to read: the value of the first entry
\* of armor_class, "?" when armor_class is missing, no list, an empty list,
\* or its first entry is no object or an object without a value.
ExpectedAC(rec) ==
    LET ac == Index(rec, "armor_class")
    IN  IF ac.t = "list" /\ Len(ac.items) > 0
        THEN LET first == ac.items[1].v
             IN  IF first.t = "map" /\ "value" \in Keys(first)
                                    /\ Index(first, "value") # Nil
                 THEN Sprint("v", Index(first, "value"))
                 ELSE "?"
        ELSE "?"

\* C14: a monster summary always has its armor class: the piece "AC " is
\* followed by the first entry's value, or by "?" when there is none to
\* read; never by nothing and never by a nil.
C14_ArmorClassOrPlaceholder ==
    (lkIn.kind = "Monster" /\ lkSummary # <<>>)
        => /\ \E i \in 1..(Len(lkSummary) - 1) : lkSummary[i] = ") | AC "
           /\ \A i \in 1..(Len(lkSummary) - 1) :
                lkSummary[i] = ") | AC "
                    => /\ lkSummary[i + 1] = ExpectedAC(lkRec)
                       /\ lkSummary[i + 1] \notin {"", "<nil>"}

====
